---- MODULE Spec2Model ----
(***************************************************************************)
(* Model of src/app.py: a Streamlit script that drives a three-step        *)
(* human-in-the-loop verification workflow (input -> review -> verified)   *)
(* and appends a row to experiment_results.csv.                            *)
(*                                                                         *)
(* Streamlit executes the whole script from top to bottom on every user    *)
(* event; st.rerun() stops the run and starts a fresh one at once.  One    *)
(* action of the model is one user event: the script run it triggers plus  *)
(* the run started by st.rerun(), if the first run calls it.               *)
(*                                                                         *)
(* src/app.py holds an unresolved merge (lines 190-246).  The model takes  *)
(* the HEAD side (lines 192-224), the one that writes the CSV row; the     *)
(* button of lines 247-249 closes that branch.                             *)
(***************************************************************************)
EXTENDS Integers, Sequences, FiniteSets, TLC

(* ---------------------------- bounds ---------------------------------- *)

\* Rows the file may hold (header included) before appending events stop.
MaxRows == 4

\* Rows the first session may append while a second session is followed.
MaxConcRows == 2

\* Rows a session may append while it is followed from before its first run.
MaxFirstRows == 2

\* Rows a session may append while the file may become unwritable.
MaxFaultRows == 1

(* ------------------------- program constants -------------------------- *)

\* max_results=1 of the search call.
MaxResults == 1

\* Python's None in a string-valued field / in research_data.
None == "None"
NoData == [kind |-> "None"]

\* The header row written on creation of the CSV file.
Header ==
  [kind |-> "header",
   cols |-> <<"timestamp", "topic", "agent_claim", "source_url",
              "human_verdict", "verification_mode">>]

\* The options of the verification-mode radio, in order.
Modes == <<"Blind", "Source-Grounded">>

defaults ==
  [step |-> "input",
   topic |-> "",
   research_data |-> NoData,
   ai_summary |-> "",
   verification_status |-> None,
   verification_mode |-> "Source-Grounded"]

Keys == DOMAIN defaults

(* --------------------- inputs from the environment -------------------- *)

\* Texts the user may have in the topic field ("" = nothing typed).
TopicTexts == {"", "X", "Z"}

\* Results the search collaborator may return.
Results ==
  {[kind |-> "result", url |-> "http://a", content |-> "Y is true."],
   [kind |-> "result", url |-> "http://b", content |-> "W is false."]}

\* Claims the summarization collaborator may return.
Summaries == {"Y is true.", "W is false."}

\* Outcome of tavily.search: an exception, or a list of at most MaxResults
\* results.
SearchOutcomes ==
  {[ok |-> FALSE, results |-> <<>>], [ok |-> TRUE, results |-> <<>>]}
    \cup {[ok |-> TRUE, results |-> <<r>>] : r \in Results}

\* Outcome of llm.invoke: an exception, or a response with content.
LlmOutcomes ==
  {[ok |-> FALSE, content |-> ""]}
    \cup {[ok |-> TRUE, content |-> s] : s \in Summaries}

Buttons == {"start", "approve", "reject", "restart", "new_topic"}

\* A user event: the button whose click triggered the run ("none" for a run
\* without a click) and what the collaborators will answer in that run.
NoEvent ==
  [button |-> "none",
   search |-> [ok |-> FALSE, results |-> <<>>],
   llm |-> [ok |-> FALSE, content |-> ""]]

(* ------------------------------- state -------------------------------- *)

VARIABLES
  session_state,   \* st.session_state
  radio,           \* value of the verification-mode radio widget
  topic_input,     \* value of the topic text_input widget
  csv_exists,      \* os.path.exists(CSV_FILE)
  csv_rows,        \* rows of CSV_FILE, header first
  now,             \* the clock read by datetime.now()
  screen,          \* what the last script run rendered
  cycle,           \* history: the cycle opened by the last successful start
  csv_writable,    \* whether open(CSV_FILE, ...) succeeds
  peer             \* a second session's script run, inside lines 43-53

vars ==
  <<session_state, radio, topic_input, csv_exists, csv_rows, now, screen,
    cycle, csv_writable, peer>>

\* The fields of the model that a script run reads and writes, as one record.
World ==
  [session_state |-> session_state, radio |-> radio,
   topic_input |-> topic_input, csv_exists |-> csv_exists,
   csv_rows |-> csv_rows, now |-> now, screen |-> screen,
   csv_writable |-> csv_writable]

(* ------------------------- the script, top down ----------------------- *)

\* CsvSetup without the os.path.exists test of line 43.
CsvSetup_NoExistsCheck(w) ==
  [w EXCEPT !.csv_exists = TRUE, !.csv_rows = <<Header>>]

\* Lines 43-53: create the file with its header when it does not exist.
\* open(..., "w") truncates, so the header is then the only row.
CsvSetup(w) ==
  IF ~w.csv_exists
    THEN [w EXCEPT !.csv_exists = TRUE, !.csv_rows = <<Header>>]
    ELSE w

\* Lines 80-82: every key missing from the session state gets its default.
SessionDefaults(ss) ==
  [k \in Keys |-> IF k \in DOMAIN ss THEN ss[k] ELSE defaults[k]]

\* A widget that a run does not render loses its value: the radio and the
\* text field exist only in the input branch (lines 93-102) and come back
\* with their defaults (first option, empty text).
DropInputWidgets(w) ==
  [w EXCEPT !.radio = Modes[1], !.topic_input = ""]

\* StartAgent with line 134 (step = "review") moved before llm.invoke.
StartAgent_StepBeforeInvoke(ss, topic, ev) ==
  IF ~ev.search.ok
    THEN [ss |-> ss, outcome |-> "search_error"]
    ELSE
      LET s1 == [ss EXCEPT !.topic = topic] IN
      IF Len(ev.search.results) = 0
        THEN [ss |-> s1, outcome |-> "no_results"]
        ELSE
          LET s2 == [s1 EXCEPT !.research_data = ev.search.results[1],
                               !.step = "review"] IN
          IF ~ev.llm.ok
            THEN [ss |-> s2, outcome |-> "llm_error"]
            ELSE [ss |-> [s2 EXCEPT !.ai_summary = ev.llm.content],
                  outcome |-> "ok"]

\* StartAgent without line 116 (session_state.topic = topic_input).
StartAgent_KeepsTopic(ss, topic, ev) ==
  IF ~ev.search.ok
    THEN [ss |-> ss, outcome |-> "search_error"]
    ELSE
      IF Len(ev.search.results) = 0
        THEN [ss |-> ss, outcome |-> "no_results"]
        ELSE
          LET s2 == [ss EXCEPT !.research_data = ev.search.results[1]] IN
          IF ~ev.llm.ok
            THEN [ss |-> s2, outcome |-> "llm_error"]
            ELSE [ss |-> [s2 EXCEPT !.ai_summary = ev.llm.content,
                                    !.step = "review"],
                  outcome |-> "ok"]

\* StartAgent that stores the search result only when none is stored yet.
StartAgent_KeepsResearch(ss, topic, ev) ==
  IF ~ev.search.ok
    THEN [ss |-> ss, outcome |-> "search_error"]
    ELSE
      LET s1 == [ss EXCEPT !.topic = topic] IN
      IF Len(ev.search.results) = 0
        THEN [ss |-> s1, outcome |-> "no_results"]
        ELSE
          LET s2 == IF s1.research_data = NoData
                      THEN [s1 EXCEPT !.research_data = ev.search.results[1]]
                      ELSE s1
          IN
          IF ~ev.llm.ok
            THEN [ss |-> s2, outcome |-> "llm_error"]
            ELSE [ss |-> [s2 EXCEPT !.ai_summary = ev.llm.content,
                                    !.step = "review"],
                  outcome |-> "ok"]

\* Lines 109-138, the try block of the Start Agent handler with a non-empty
\* topic.  The writes before a raising statement stay; the except clause
\* only shows the error.
StartAgent(ss, topic, ev) ==
  IF ~ev.search.ok
    THEN [ss |-> ss, outcome |-> "search_error"]
    ELSE
      LET s1 == [ss EXCEPT !.topic = topic] IN
      IF Len(ev.search.results) = 0
        THEN [ss |-> s1, outcome |-> "no_results"]   \* results[0]: IndexError
        ELSE
          LET s2 == [s1 EXCEPT !.research_data = ev.search.results[1]] IN
          IF ~ev.llm.ok
            THEN [ss |-> s2, outcome |-> "llm_error"]
            ELSE [ss |-> [s2 EXCEPT !.ai_summary = ev.llm.content,
                                    !.step = "review"],
                  outcome |-> "ok"]

InputButtons == {"start"}

\* InputStep without the empty-topic test of lines 105-106.
InputStep_NoEmptyGuard(w, ev) ==
  LET w1 == [w EXCEPT !.session_state.verification_mode = w.radio]
      show(m) == [header |-> "input", message |-> m,
                  payload |-> [kind |-> "none"], buttons |-> InputButtons]
  IN
  IF ev.button # "start"
    THEN [w |-> [w1 EXCEPT !.screen = show("none")], rerun |-> FALSE]
    ELSE
      LET r == StartAgent(w1.session_state, w1.topic_input, ev) IN
      IF r.outcome = "ok"
        THEN [w |-> [w1 EXCEPT !.session_state = r.ss], rerun |-> TRUE]
        ELSE [w |-> [w1 EXCEPT !.session_state = r.ss,
                               !.screen = show("error")],
              rerun |-> FALSE]

\* InputStep without the except clause of lines 137-138: the exception of a
\* collaborator ends the run.
InputStep_NoExcept(w, ev) ==
  LET w1 == [w EXCEPT !.session_state.verification_mode = w.radio]
      show(m) == [header |-> "input", message |-> m,
                  payload |-> [kind |-> "none"], buttons |-> InputButtons]
  IN
  IF ev.button # "start"
    THEN [w |-> [w1 EXCEPT !.screen = show("none")], rerun |-> FALSE]
    ELSE IF w1.topic_input = ""
      THEN [w |-> [w1 EXCEPT !.screen = show("warning")], rerun |-> FALSE]
      ELSE
        LET r == StartAgent(w1.session_state, w1.topic_input, ev) IN
        IF r.outcome = "ok"
          THEN [w |-> [w1 EXCEPT !.session_state = r.ss], rerun |-> TRUE]
          ELSE [w |-> [w1 EXCEPT !.session_state = r.ss,
                                 !.screen =
                                   [header |-> "input",
                                    message |-> "exception",
                                    payload |-> [kind |-> "none"],
                                    buttons |-> {}]],
                rerun |-> FALSE]

\* Lines 89-138: the input branch.
InputStep(w, ev) ==
  LET w1 == [w EXCEPT !.session_state.verification_mode = w.radio]
      show(m) == [header |-> "input", message |-> m,
                  payload |-> [kind |-> "none"], buttons |-> InputButtons]
  IN
  IF ev.button # "start"
    THEN [w |-> [w1 EXCEPT !.screen = show("none")], rerun |-> FALSE]
    ELSE IF w1.topic_input = ""
      THEN [w |-> [w1 EXCEPT !.screen = show("warning")], rerun |-> FALSE]
      ELSE
        LET r == StartAgent(w1.session_state, w1.topic_input, ev) IN
        IF r.outcome = "ok"
          THEN [w |-> [w1 EXCEPT !.session_state = r.ss], rerun |-> TRUE]
          ELSE [w |-> [w1 EXCEPT !.session_state = r.ss,
                                 !.screen = show("error")],
                rerun |-> FALSE]

\* ReviewPayload without the Blind branch of line 149.
ReviewPayload_ShowsSource(ss) ==
  [kind |-> "grounded", claim |-> ss.ai_summary,
   url |-> ss.research_data.url,
   content |-> ss.research_data.content]

\* Lines 149-169: what the review branch shows of the session state.
\* In Source-Grounded mode None['url'] raises, which the caller handles.
ReviewPayload(ss) ==
  IF ss.verification_mode = "Blind"
    THEN [kind |-> "blind", claim |-> ss.ai_summary]
    ELSE [kind |-> "grounded", claim |-> ss.ai_summary,
          url |-> ss.research_data.url,
          content |-> ss.research_data.content]

\* Approve that also puts verification_mode back to its default.
Approve_ResetsMode(ss) ==
  [ss EXCEPT !.verification_status = "Verified Accurate",
             !.step = "verified",
             !.verification_mode = defaults.verification_mode]

\* Lines 176-179.
Approve(ss) ==
  [ss EXCEPT !.verification_status = "Verified Accurate",
             !.step = "verified"]

\* Reject with the verdict text of Approve.
Reject_AsApprove(ss) ==
  [ss EXCEPT !.verification_status = "Verified Accurate",
             !.step = "verified"]

\* Lines 181-184.
Reject(ss) ==
  [ss EXCEPT !.verification_status = "Hallucination Detected",
             !.step = "verified"]

\* Restart that goes on to the logging step.
Restart_ToVerified(ss) ==
  [ss EXCEPT !.step = "verified"]

\* Lines 186-188.
Restart(ss) ==
  [ss EXCEPT !.step = "input"]

ReviewButtons == {"approve", "reject", "restart"}

\* The screen of a run that an uncaught exception stopped: the elements
\* rendered so far and the traceback, no button after the raising line.
Uncaught(h) ==
  [header |-> h, message |-> "exception", payload |-> [kind |-> "none"],
   buttons |-> {}]

\* Lines 145-188: the review branch.
ReviewStep(w, ev) ==
  LET ss == w.session_state
      w1 == DropInputWidgets(w)
  IN
  IF ss.verification_mode # "Blind" /\ ss.research_data = NoData
    THEN [w |-> [w1 EXCEPT !.screen = Uncaught("review")], rerun |-> FALSE]
    ELSE
      CASE ev.button = "approve" ->
             [w |-> [w1 EXCEPT !.session_state = Approve(ss)], rerun |-> TRUE]
        [] ev.button = "reject" ->
             [w |-> [w1 EXCEPT !.session_state = Reject(ss)], rerun |-> TRUE]
        [] ev.button = "restart" ->
             [w |-> [w1 EXCEPT !.session_state = Restart(ss)], rerun |-> TRUE]
        [] OTHER ->
             [w |-> [w1 EXCEPT !.screen =
                       [header |-> "review", message |-> "none",
                        payload |-> ReviewPayload(ss),
                        buttons |-> ReviewButtons]],
              rerun |-> FALSE]

\* Lines 207-214: the row written for the session state at time t.
LogRow(ss, t) ==
  [kind |-> "row",
   timestamp |-> t,
   topic |-> ss.topic,
   agent_claim |-> ss.ai_summary,
   source_url |-> ss.research_data.url,
   human_verdict |-> ss.verification_status,
   verification_mode |-> ss.verification_mode]

\* Lines 216-222: the record shown by st.json.
LogJson(ss) ==
  [kind |-> "json",
   topic |-> ss.topic,
   agent_claim |-> ss.ai_summary,
   source_url |-> ss.research_data.url,
   human_verdict |-> ss.verification_status,
   verification_mode |-> ss.verification_mode]

\* Lines 247-249.
TestAnotherTopic(ss) ==
  [ss EXCEPT !.step = "input"]

VerifiedButtons == {"new_topic"}

\* Lines 196-224 and 247-249: the verified branch.  The row is written by
\* every run of the branch, before the button is evaluated.  datetime.now()
\* is a clock that advances with every read.  open(CSV_FILE, "a") of line
\* 205 is not inside a try: when the file cannot be written the exception
\* ends the run before st.json and before the button.
VerifiedStep(w, ev) ==
  LET ss == w.session_state
      w1 == DropInputWidgets(w)
  IN
  IF ~w.csv_writable \/ ss.research_data = NoData
    THEN [w |-> [w1 EXCEPT !.screen = Uncaught("verified")], rerun |-> FALSE]
    ELSE
      LET w2 == [w1 EXCEPT !.csv_exists = TRUE,
                           !.csv_rows = Append(@, LogRow(ss, w.now)),
                           !.now = @ + 1]
      IN
      IF ev.button = "new_topic"
        THEN [w |-> [w2 EXCEPT !.session_state = TestAnotherTopic(ss)],
              rerun |-> TRUE]
        ELSE [w |-> [w2 EXCEPT !.screen =
                       [header |-> "verified",
                        message |-> IF ss.verification_status = "Verified Accurate"
                                      THEN "success" ELSE "error",
                        payload |-> LogJson(ss),
                        buttons |-> VerifiedButtons]],
              rerun |-> FALSE]

\* Lines 43-249: one run of the script for event ev.
ScriptRun(w, ev) ==
  LET w1 == CsvSetup(w)
      w2 == [w1 EXCEPT !.session_state = SessionDefaults(w1.session_state)]
  IN
  CASE ~w.csv_exists /\ ~w.csv_writable ->   \* open(..., "w") of line 44 raises
         [w |-> [w EXCEPT !.screen = Uncaught("setup")], rerun |-> FALSE]
    [] w2.session_state.step = "input" -> InputStep(w2, ev)
    [] w2.session_state.step = "review" -> ReviewStep(w2, ev)
    [] w2.session_state.step = "verified" -> VerifiedStep(w2, ev)
    [] OTHER -> [w |-> w2, rerun |-> FALSE]

\* A user event: the run it triggers and, after st.rerun(), the run that
\* follows at once, in which no button is clicked.
Handle(w, ev) ==
  LET r == ScriptRun(w, ev) IN
  IF r.rerun THEN ScriptRun(r.w, NoEvent).w ELSE r.w

(* ------------------------------ start --------------------------------- *)

\* The CSV file as a new session may find it: absent, or created by an
\* earlier run of the script.
PriorFiles ==
  {[exists |-> FALSE, rows |-> <<>>],
   [exists |-> TRUE, rows |-> <<Header>>]}

\* A session before its first script run: nothing in st.session_state.
NewSession(file) ==
  [session_state |-> [k \in {} |-> None],
   radio |-> Modes[1],
   topic_input |-> "",
   csv_exists |-> file.exists,
   csv_rows |-> file.rows,
   now |-> 1,
   screen |-> [header |-> "none", message |-> "none",
               payload |-> [kind |-> "none"], buttons |-> {}],
   csv_writable |-> TRUE]

\* The variables take the values of world record w.
Becomes(w) ==
  /\ session_state' = w.session_state
  /\ radio' = w.radio
  /\ topic_input' = w.topic_input
  /\ csv_exists' = w.csv_exists
  /\ csv_rows' = w.csv_rows
  /\ now' = w.now
  /\ screen' = w.screen

\* The second session between two of its script runs.
PeerIdle == [pc |-> "idle", found |-> FALSE]

\* The history of a session that has not started a cycle yet.
NoCycle(rows) ==
  [topic |-> "", research_data |-> NoData, ai_summary |-> "",
   mode |-> None, decision |-> "none", exit |-> "none",
   review_log |-> rows]

\* The state after the first script run of a session (lines 43-102).
Init ==
  \E file \in PriorFiles :
    LET w == Handle(NewSession(file), NoEvent) IN
    /\ session_state = w.session_state
    /\ radio = w.radio
    /\ topic_input = w.topic_input
    /\ csv_exists = w.csv_exists
    /\ csv_rows = w.csv_rows
    /\ now = w.now
    /\ screen = w.screen
    /\ cycle = NoCycle(w.csv_rows)
    /\ csv_writable = TRUE
    /\ peer = PeerIdle

(* ------------------------------ events -------------------------------- *)

Click(b) == [NoEvent EXCEPT !.button = b]

\* The file has room for the row that a run of the verified branch writes.
Room == Len(csv_rows) < MaxRows

\* How a Start Agent click ends, from the field and the collaborators.
StartOutcome(topic, search, llm) ==
  IF topic = "" THEN "empty_topic"
  ELSE IF ~search.ok THEN "search_error"
  ELSE IF Len(search.results) = 0 THEN "no_results"
  ELSE IF ~llm.ok THEN "llm_error"
  ELSE "ok"

\* Lines 99-102: the user edits the topic field; the script runs again.
TypeTopic(t) ==
  /\ session_state.step = "input"
  /\ t # topic_input
  /\ Becomes(Handle([World EXCEPT !.topic_input = t], NoEvent))
  /\ UNCHANGED <<cycle, csv_writable, peer>>

\* Lines 93-97: the user picks a verification mode; the script runs again.
ChooseMode(m) ==
  /\ session_state.step = "input"
  /\ m # radio
  /\ Becomes(Handle([World EXCEPT !.radio = m], NoEvent))
  /\ UNCHANGED <<cycle, csv_writable, peer>>

\* Lines 104-138: the Start Agent button.
ClickStart(search, llm) ==
  /\ "start" \in screen.buttons
  /\ LET ev == [button |-> "start", search |-> search, llm |-> llm]
         out == StartOutcome(topic_input, search, llm)
     IN
     /\ Becomes(Handle(World, ev))
     /\ cycle' = IF out = "ok"
                   THEN [topic |-> topic_input,
                         research_data |-> search.results[1],
                         ai_summary |-> llm.content,
                         mode |-> radio,
                         decision |-> "none",
                         exit |-> "open",
                         review_log |-> csv_rows]
                   ELSE cycle
  /\ UNCHANGED <<csv_writable, peer>>

\* Lines 176-179: the Approve button.
ClickApprove ==
  /\ "approve" \in screen.buttons
  /\ Room
  /\ Becomes(Handle(World, Click("approve")))
  /\ cycle' = [cycle EXCEPT !.decision = "approve"]
  /\ UNCHANGED <<csv_writable, peer>>

\* Lines 181-184: the Reject button.
ClickReject ==
  /\ "reject" \in screen.buttons
  /\ Room
  /\ Becomes(Handle(World, Click("reject")))
  /\ cycle' = [cycle EXCEPT !.decision = "reject"]
  /\ UNCHANGED <<csv_writable, peer>>

\* Lines 186-188: the Restart button.
ClickRestart ==
  /\ "restart" \in screen.buttons
  /\ Becomes(Handle(World, Click("restart")))
  /\ cycle' = [cycle EXCEPT !.exit = "restart"]
  /\ UNCHANGED <<csv_writable, peer>>

\* Lines 247-249: the Test Another Topic button.
ClickNewTopic ==
  /\ "new_topic" \in screen.buttons
  /\ Room
  /\ Becomes(Handle(World, Click("new_topic")))
  /\ cycle' = [cycle EXCEPT !.exit = "new_topic"]
  /\ UNCHANGED <<csv_writable, peer>>

\* A run of the script without a widget event (the Rerun command of the
\* page): lines 43-249 with every button False.
Rerender ==
  /\ session_state.step = "verified" => Room
  /\ Becomes(Handle(World, NoEvent))
  /\ UNCHANGED <<cycle, csv_writable, peer>>

\* A click that arrives for a button of a step the session has left (a
\* second click on Approve, say): the branch of the current step does not
\* create that button, so no handler of lines 104, 176, 181, 186, 247 runs.
StaleClick(b) ==
  /\ b \notin screen.buttons
  /\ session_state.step = "verified" => Room
  /\ Becomes(Handle(World, Click(b)))
  /\ UNCHANGED <<cycle, csv_writable, peer>>

Next ==
  \/ \E t \in TopicTexts : TypeTopic(t)
  \/ \E m \in {Modes[i] : i \in DOMAIN Modes} : ChooseMode(m)
  \/ \E search \in SearchOutcomes, llm \in LlmOutcomes : ClickStart(search, llm)
  \/ ClickApprove
  \/ ClickReject
  \/ ClickRestart
  \/ ClickNewTopic
  \/ \E b \in Buttons : StaleClick(b)
  \/ Rerender

Spec == Init /\ [][Next]_vars

(* ---------------------- two sessions, one file ----------------------- *)

\* Every session runs the same script on its own thread; the file is the
\* only thing they share.  The second session is followed through lines
\* 43-53 of its runs only, one statement at a time; it stays at its Input
\* step, which writes nothing to the file.

\* The first session has run the script at least once.
Loaded == DOMAIN session_state = Keys

\* The first script run of the first session (lines 43-102).
Load ==
  /\ ~Loaded
  /\ peer.pc = "idle" \/ peer.pc = "checked"
  /\ Becomes(Handle(World, NoEvent))
  /\ cycle' = NoCycle(Handle(World, NoEvent).csv_rows)
  /\ UNCHANGED <<csv_writable, peer>>

\* Line 43 in the second session: os.path.exists(CSV_FILE).
PeerExists ==
  /\ peer.pc = "idle"
  /\ peer' = [pc |-> "checked", found |-> csv_exists]
  /\ UNCHANGED <<session_state, radio, topic_input, csv_exists, csv_rows,
                 now, screen, cycle, csv_writable>>

\* Lines 44-53 in the second session, the file not found at line 43:
\* open(CSV_FILE, "w") empties the file, then the header is written.
PeerCreate ==
  /\ peer.pc = "checked"
  /\ ~peer.found
  /\ csv_exists' = TRUE
  /\ csv_rows' = <<Header>>
  /\ peer' = PeerIdle
  /\ UNCHANGED <<session_state, radio, topic_input, now, screen, cycle,
                 csv_writable>>

\* The second session found the file at line 43 and skips lines 44-53.
PeerSkip ==
  /\ peer.pc = "checked"
  /\ peer.found
  /\ peer' = PeerIdle
  /\ UNCHANGED <<session_state, radio, topic_input, csv_exists, csv_rows,
                 now, screen, cycle, csv_writable>>

\* Both sessions before their first run, the file not created yet.
InitConc ==
  LET w == NewSession([exists |-> FALSE, rows |-> <<>>]) IN
  /\ session_state = w.session_state
  /\ radio = w.radio
  /\ topic_input = w.topic_input
  /\ csv_exists = w.csv_exists
  /\ csv_rows = w.csv_rows
  /\ now = w.now
  /\ screen = w.screen
  /\ cycle = NoCycle(w.csv_rows)
  /\ csv_writable = TRUE
  /\ peer = PeerIdle

NextConc ==
  \/ Load
  \/ PeerExists
  \/ PeerCreate
  \/ PeerSkip
  \/ Loaded /\ now <= MaxConcRows /\ Next

SpecConc == InitConc /\ [][NextConc]_vars

(* ------------------- one session, from its first run ------------------ *)

\* A row left in the file by an earlier session.
OldRow ==
  [kind |-> "row", timestamp |-> 0, topic |-> "Z",
   agent_claim |-> "W is false.", source_url |-> "http://b",
   human_verdict |-> "Hallucination Detected",
   verification_mode |-> "Source-Grounded"]

\* The CSV file as the first run of a session may find it.
FirstRunFiles ==
  PriorFiles \cup {[exists |-> TRUE, rows |-> <<Header, OldRow>>]}

\* A session before its first script run.
InitSession ==
  \E file \in FirstRunFiles :
    LET w == NewSession(file) IN
    /\ session_state = w.session_state
    /\ radio = w.radio
    /\ topic_input = w.topic_input
    /\ csv_exists = w.csv_exists
    /\ csv_rows = w.csv_rows
    /\ now = w.now
    /\ screen = w.screen
    /\ cycle = NoCycle(w.csv_rows)
    /\ csv_writable = TRUE
    /\ peer = PeerIdle

NextSession ==
  \/ Load
  \/ Loaded /\ now <= MaxFirstRows /\ Next

SpecSession == InitSession /\ [][NextSession]_vars

(* ------------------- a file that cannot be written ------------------- *)

\* The file becomes unwritable (permissions, read-only or full volume).
StoreFails ==
  /\ csv_writable
  /\ csv_writable' = FALSE
  /\ UNCHANGED <<session_state, radio, topic_input, csv_exists, csv_rows,
                 now, screen, cycle, peer>>

\* The file can be written again.
StoreRecovers ==
  /\ ~csv_writable
  /\ csv_writable' = TRUE
  /\ UNCHANGED <<session_state, radio, topic_input, csv_exists, csv_rows,
                 now, screen, cycle, peer>>

NextFault ==
  \/ now <= MaxFaultRows /\ Next
  \/ StoreFails
  \/ StoreRecovers

SpecFault == Init /\ [][NextFault]_vars

(* --------------------------- type invariant --------------------------- *)

TypeOK ==
  /\ DOMAIN session_state = Keys
  /\ session_state.step \in {"input", "review", "verified"}
  /\ session_state.topic \in TopicTexts
  /\ session_state.research_data \in Results \cup {NoData}
  /\ session_state.ai_summary \in Summaries \cup {""}
  /\ session_state.verification_status
       \in {None, "Verified Accurate", "Hallucination Detected"}
  /\ session_state.verification_mode \in {"Blind", "Source-Grounded"}
  /\ csv_exists
  /\ Len(csv_rows) \in 1..MaxRows
  /\ csv_rows[1] = Header

(* ------------------------------ claims -------------------------------- *)

\* The rows appended since the current cycle entered Review.
CycleRows == (Len(cycle.review_log) + 1)..Len(csv_rows)

\* C1: a cycle that is decided (Approve or Reject) and then completed with
\* Test Another Topic has appended exactly one log record, however often the
\* Verified step was rendered in between.
C1_OneRecordPerCycle ==
  cycle.exit = "new_topic" => Len(csv_rows) = Len(cycle.review_log) + 1

\* C2: verification_status is non-null if and only if step = verified.
C2_StatusIffVerified ==
  (session_state.verification_status # None)
    <=> (session_state.step = "verified")

\* C3: in every Input state that follows a return by Restart or by Test
\* Another Topic, topic, research_data, ai_summary and verification_status
\* hold their initial values.
C3_FieldsResetOnReturn ==
  (session_state.step = "input" /\ cycle.exit \in {"restart", "new_topic"})
    => /\ session_state.topic = defaults.topic
       /\ session_state.research_data = defaults.research_data
       /\ session_state.ai_summary = defaults.ai_summary
       /\ session_state.verification_status = defaults.verification_status

\* C4: a Start Agent click with a non-empty topic whose search returns zero
\* results leaves the step at Input, changes no field of the session state
\* and appends no log record.
C4_NoResultsNoMutation ==
  [][\A search \in SearchOutcomes, llm \in LlmOutcomes :
       (/\ StartOutcome(topic_input, search, llm) = "no_results"
        /\ ClickStart(search, llm))
         => /\ session_state'.step = "input"
            /\ session_state' = session_state
            /\ csv_rows' = csv_rows]_vars

\* C5: a Start Agent click with a non-empty topic whose search returns a
\* result and whose summarization raises leaves the step at Input and topic,
\* research_data and ai_summary as they were before the click.
C5_LlmErrorNoMutation ==
  [][\A search \in SearchOutcomes, llm \in LlmOutcomes :
       (/\ StartOutcome(topic_input, search, llm) = "llm_error"
        /\ ClickStart(search, llm))
         => /\ session_state'.step = "input"
            /\ session_state'.topic = session_state.topic
            /\ session_state'.research_data = session_state.research_data
            /\ session_state'.ai_summary = session_state.ai_summary]_vars

\* C6: in Blind mode the Review screen's payload holds the AI claim only and
\* is the same for every research_data the session could hold.
C6_BlindPayloadIndependent ==
  (session_state.step = "review" /\ session_state.verification_mode = "Blind")
    => /\ screen.header = "review"
       /\ screen.payload = [kind |-> "blind", claim |-> session_state.ai_summary]
       /\ \A r \in Results :
            ReviewPayload([session_state EXCEPT !.research_data = r])
              = screen.payload

\* C6 witness: a Blind review of a claim that differs from the source text.
C6_Witness ==
  /\ session_state.step = "review"
  /\ session_state.verification_mode = "Blind"
  /\ screen.header = "review"
  /\ session_state.research_data.content # session_state.ai_summary

C8_RowCarriesCycle ==
  \A i \in CycleRows :
    /\ csv_rows[i].topic = cycle.topic
    /\ csv_rows[i].agent_claim = cycle.ai_summary
    /\ csv_rows[i].source_url = cycle.research_data.url
    /\ csv_rows[i].verification_mode = cycle.mode
    /\ csv_rows[i].human_verdict = "Verified Accurate"
         <=> cycle.decision = "approve"
    /\ csv_rows[i].human_verdict = "Hallucination Detected"
         <=> cycle.decision = "reject"

\* C8 witness: a rejected Blind cycle has written its record.
C8_Witness ==
  /\ CycleRows # {}
  /\ cycle.decision = "reject"
  /\ cycle.mode = "Blind"
  /\ csv_rows[Len(csv_rows)].human_verdict = "Hallucination Detected"

\* C9: while a cycle is in Review, and after it left Review by Restart (the
\* following Input renders included), the log is the log at the moment
\* Review was entered.
C9_RestartAppendsNothing ==
  (session_state.step = "review" \/ cycle.exit = "restart")
    => csv_rows = cycle.review_log

\* C9 witness: a cycle left by Restart, with the Input step on screen.
C9_Witness ==
  /\ cycle.exit = "restart"
  /\ session_state.step = "input"
  /\ screen.header = "input"

\* The step changes only along the four edges of the workflow.
StepEdge ==
  session_state'.step # session_state.step
    => \/ /\ session_state.step = "input" /\ session_state'.step = "review"
          /\ \E search \in SearchOutcomes, llm \in LlmOutcomes :
               /\ StartOutcome(topic_input, search, llm) = "ok"
               /\ ClickStart(search, llm)
       \/ /\ session_state.step = "review" /\ session_state'.step = "verified"
          /\ ClickApprove \/ ClickReject
       \/ /\ session_state.step = "review" /\ session_state'.step = "input"
          /\ ClickRestart
       \/ /\ session_state.step = "verified" /\ session_state'.step = "input"
          /\ ClickNewTopic

\* An event that is not valid for the current step changes neither the
\* session state nor the log.
InvalidEventNoOp ==
  \A b \in Buttons :
    StaleClick(b) => (session_state' = session_state /\ csv_rows' = csv_rows)

\* C10: the step changes only along Input->Review, Review->Verified,
\* Review->Input and Verified->Input, and an event that is not valid for the
\* current step leaves the session state and the log unchanged.
C10_EdgesAndNoOps ==
  [][StepEdge /\ InvalidEventNoOp]_vars

\* The edge part of C10 on its own.
C10_EdgesOnly ==
  [][StepEdge]_vars

\* The data rows of a file: everything after the header row.
DataRows(rows) == SubSeq(rows, 2, Len(rows))

IsPrefix(p, q) == Len(p) <= Len(q) /\ SubSeq(q, 1, Len(p)) = p

\* C11: no appended log record is ever removed or overwritten, under every
\* interleaving of one session's store initialisation (line 43, then lines
\* 44-53) with the other session's initialisation and appends: the data
\* rows of the file only grow.
C11_RowsOnlyGrow ==
  [][IsPrefix(DataRows(csv_rows), DataRows(csv_rows'))]_vars

\* The rows of a file that are header rows.
HeaderRows(rows) == {i \in DOMAIN rows : rows[i] = Header}

\* C12: store initialisation is idempotent within a session: after every
\* script run the file holds exactly one header row, its first row; a run
\* that finds no file leaves the header alone or followed by its own append,
\* and a run that finds the file keeps every row the file held.
C12_HeaderOnce ==
  [][/\ HeaderRows(csv_rows') = {1}
     /\ csv_exists => IsPrefix(csv_rows, csv_rows')
     /\ ~csv_exists => csv_rows' = <<Header>>]_vars

\* C12 witness: a session that found a file with a row of an earlier
\* session has run the script and appended after that row.
C12_Witness ==
  /\ Loaded
  /\ Len(csv_rows) >= 3
  /\ csv_rows[1] = Header
  /\ csv_rows[2] = OldRow

\* A Start Agent click with the given answers of the collaborators.
StartEvent(search, llm) ==
  [button |-> "start", search |-> search, llm |-> llm]

\* C13: a Start Agent click with an empty topic leaves the step at Input,
\* changes no field of the session state and nothing in the file, shows a
\* warning, and its result does not depend on what the search or the
\* summarization collaborator would answer (neither is called).
C13_EmptyTopicNoOp ==
  ("start" \in screen.buttons /\ topic_input = "")
    => \A search \in SearchOutcomes, llm \in LlmOutcomes :
         LET w == Handle(World, StartEvent(search, llm)) IN
         /\ w.session_state.step = "input"
         /\ w.session_state = session_state
         /\ w.csv_rows = csv_rows
         /\ w.csv_exists = csv_exists
         /\ w.screen.message = "warning"
         /\ w = Handle(World, Click("start"))

\* C13 witness: the warning is on screen after a click with an empty topic
\* in a session that holds the data of an earlier cycle.
C13_Witness ==
  /\ session_state.step = "input"
  /\ topic_input = ""
  /\ screen.message = "warning"
  /\ session_state.topic # ""

\* C14: from the successful Start Agent until the cycle's record is written,
\* verification_mode is the mode chosen in the Input step at that click: the
\* Review screen is rendered for that mode and every record of the cycle
\* carries it.
C14_ModePersists ==
  /\ session_state.step \in {"review", "verified"}
       => session_state.verification_mode = cycle.mode
  /\ screen.header = "review"
       => screen.payload.kind
            = (IF cycle.mode = "Blind" THEN "blind" ELSE "grounded")
  /\ \A i \in CycleRows : csv_rows[i].verification_mode = cycle.mode

\* C14 witness: a cycle started in Source-Grounded mode has written its
\* record.
C14_Witness ==
  /\ session_state.step = "verified"
  /\ cycle.mode = "Source-Grounded"
  /\ CycleRows # {}
  /\ csv_rows[Len(csv_rows)].verification_mode = "Source-Grounded"

\* C15: when the append of the Verified step fails, the failure is shown and
\* the Verified screen is still presented with its content and its reset
\* action, so the user can go on to Input.
C15_ResetOfferedAfterWriteFailure ==
  (session_state.step = "verified" /\ screen.message = "exception")
    => /\ screen.header = "verified"
       /\ "new_topic" \in screen.buttons
       /\ screen.payload = LogJson(session_state)

\* A search that returns result r, a summarization that returns claim s.
Found(r) == [ok |-> TRUE, results |-> <<r>>]
Answered(s) == [ok |-> TRUE, content |-> s]

\* C16: a Start Agent click with a non-empty topic, a search result r and a
\* summarization output s moves the step from Input to Review with topic
\* the entered topic, research_data = r and ai_summary = s; in
\* Source-Grounded mode the Review screen shows s with r's url and content.
C16_StartReachesReview ==
  ("start" \in screen.buttons /\ topic_input # "")
    => \A r \in Results, s \in Summaries :
         LET w == Handle(World, StartEvent(Found(r), Answered(s))) IN
         /\ session_state.step = "input"
         /\ w.session_state.step = "review"
         /\ w.session_state.topic = topic_input
         /\ w.session_state.research_data = r
         /\ w.session_state.ai_summary = s
         /\ w.screen.header = "review"
         /\ radio = "Source-Grounded"
              => w.screen.payload
                   = [kind |-> "grounded", claim |-> s,
                      url |-> r.url, content |-> r.content]

\* C16 witness: the Source-Grounded Review screen of a cycle started with
\* the topic, result and claim that the click supplied.
C16_Witness ==
  /\ session_state.step = "review"
  /\ session_state.verification_mode = "Source-Grounded"
  /\ session_state.topic = cycle.topic
  /\ session_state.research_data = cycle.research_data
  /\ screen.payload
       = [kind |-> "grounded", claim |-> cycle.ai_summary,
          url |-> cycle.research_data.url,
          content |-> cycle.research_data.content]

\* The verdict text of a decision button.
Verdict(decision) ==
  IF decision = "approve" THEN "Verified Accurate"
  ELSE IF decision = "reject" THEN "Hallucination Detected"
  ELSE None

\* The session state a cycle has when its record is written, if every field
\* comes from the cycle's own successful Start Agent and its own decision.
CycleSession ==
  [step |-> "verified",
   topic |-> cycle.topic,
   research_data |-> cycle.research_data,
   ai_summary |-> cycle.ai_summary,
   verification_status |-> Verdict(cycle.decision),
   verification_mode |-> cycle.mode]

\* C17: every appended record is coherent: while a cycle is in Review or
\* Verified the stored topic, research_data and ai_summary are those of the
\* cycle's own successful Start Agent, and each record of the cycle is the
\* row of exactly that data and the cycle's own decision, whatever earlier
\* failed attempts or earlier cycles left in the session state.
C17_RecordCoherent ==
  /\ session_state.step \in {"review", "verified"}
       => /\ session_state.topic = cycle.topic
          /\ session_state.research_data = cycle.research_data
          /\ session_state.ai_summary = cycle.ai_summary
  /\ \A i \in CycleRows :
       /\ cycle.decision \in {"approve", "reject"}
       /\ csv_rows[i] = LogRow(CycleSession, csv_rows[i].timestamp)

\* C17 witness: a record of a second cycle whose topic, claim and source
\* url all differ from those the first cycle left in the session state.
C17_Witness ==
  /\ Len(cycle.review_log) >= 2
  /\ CycleRows # {}
  /\ csv_rows[2].topic # cycle.topic
  /\ csv_rows[2].agent_claim # cycle.ai_summary
  /\ csv_rows[2].source_url # cycle.research_data.url
  /\ csv_rows[Len(csv_rows)].topic = cycle.topic

\* What the Review screen shows of claim s and result r in mode m.
ReviewShown(m, r, s) ==
  IF m = "Blind"
    THEN [kind |-> "blind", claim |-> s]
    ELSE [kind |-> "grounded", claim |-> s, url |-> r.url,
          content |-> r.content]

\* A later attempt from world w: the user enters topic t and mode m, then
\* clicks Start Agent; the search finds r and the summarization answers s.
LaterAttempt(w, t, m, r, s) ==
  Handle(Handle([w EXCEPT !.topic_input = t, !.radio = m], NoEvent),
         StartEvent(Found(r), Answered(s)))

\* C18: a Start Agent click that fails in the search or in the summarization
\* leaves the step at Input with the error shown and the Start Agent button
\* on screen; and from every state that shows such an error, a later click
\* with a non-empty topic whose search and summarization succeed reaches
\* Review, whose screen and stored fields hold the later attempt's data only.
C18_RecoversAfterFailure ==
  /\ ("start" \in screen.buttons /\ topic_input # "")
       => \A search \in SearchOutcomes, llm \in LlmOutcomes :
            StartOutcome(topic_input, search, llm) # "ok"
              => LET f == Handle(World, StartEvent(search, llm)) IN
                 /\ f.session_state.step = "input"
                 /\ f.screen.message = "error"
                 /\ "start" \in f.screen.buttons
  /\ (session_state.step = "input" /\ screen.message \in {"error", "exception"})
       => /\ "start" \in screen.buttons
          /\ \A t \in TopicTexts \ {""}, m \in {"Blind", "Source-Grounded"},
                r \in Results, s \in Summaries :
               LET w == LaterAttempt(World, t, m, r, s) IN
               /\ w.session_state.step = "review"
               /\ w.session_state.topic = t
               /\ w.session_state.research_data = r
               /\ w.session_state.ai_summary = s
               /\ w.screen.header = "review"
               /\ w.screen.payload = ReviewShown(m, r, s)

\* C18 witness: the error of a failed summarization is on screen; the failed
\* attempt has stored its topic and its search result.
C18_Witness ==
  /\ session_state.step = "input"
  /\ screen.message = "error"
  /\ "start" \in screen.buttons
  /\ session_state.research_data \in Results
  /\ session_state.ai_summary = ""

====
